---- MODULE Spec2Model ----
(***************************************************************************)
(* Pairs-trading signal pipeline and backtest engine (src/src/signals.py,  *)
(* src/src/backtest.py, src/src/config.py).                                *)
(*                                                                         *)
(* Every function of the repository is pure, so each is an operator here   *)
(* and each specification draws the function's inputs in its initial       *)
(* states and applies the functions as actions:                            *)
(*   Spec     the full pipeline on a price frame, run twice (df, df2)      *)
(*   SpecSig  generate_positions and apply_coint_regime_filter on free     *)
(*            z-score and p-value series                                   *)
(*   SpecBT   backtest_pairs on free position, beta and vol_scale series   *)
(*                                                                         *)
(* A float64 is modelled as a pair <<kind, v>>: kind 0 is a finite number   *)
(* in fixed point (v thousandths, results truncated toward zero), kind 1   *)
(* is an infinity of sign v, kind 2 is NaN.  A pandas Series is a sequence  *)
(* of such values over the bar index 1..n.                                 *)
(***************************************************************************)
EXTENDS Integers, Sequences, FiniteSets

VARIABLES pc, cfg, df, df2, feat, pos_raw, pos, out, run2

vars == <<pc, cfg, df, df2, feat, pos_raw, pos, out, run2>>

\* Number of bars of the price frame in the pipeline runs.
NBars == 5
\* Number of bars of the series given to generate_positions / the filter.
NSigBars == 4
\* Number of bars of the series given to backtest_pairs directly.
NBtBars == 3

-----------------------------------------------------------------------------
(* float64 arithmetic                                                      *)

\* Fixed-point unit: Fin(S) is 1.0.
S == 1000

Fin(v) == <<0, v>>
Inf(s) == <<1, s>>
NaN == <<2, 0>>

IsFin(a) == a[1] = 0
IsInf(a) == a[1] = 1
IsNaN(a) == a[1] = 2

AbsInt(n) == IF n < 0 THEN -n ELSE n
SignInt(n) == IF n < 0 THEN -1 ELSE 1

\* Integer quotient truncated toward zero.
Tdiv(n, d) ==
  IF (n >= 0) = (d > 0) THEN AbsInt(n) \div AbsInt(d)
  ELSE -(AbsInt(n) \div AbsInt(d))

FNeg(a) == IF IsNaN(a) THEN NaN ELSE <<a[1], -a[2]>>

FAbs(a) == IF IsNaN(a) THEN NaN ELSE <<a[1], AbsInt(a[2])>>

FAdd(a, b) ==
  IF IsNaN(a) \/ IsNaN(b) THEN NaN
  ELSE IF IsFin(a) /\ IsFin(b) THEN Fin(a[2] + b[2])
  ELSE IF IsInf(a) /\ IsInf(b) THEN (IF a[2] = b[2] THEN a ELSE NaN)
  ELSE IF IsInf(a) THEN a ELSE b

FSub(a, b) == FAdd(a, FNeg(b))

FMul(a, b) ==
  IF IsNaN(a) \/ IsNaN(b) THEN NaN
  ELSE IF IsFin(a) /\ IsFin(b) THEN Fin(Tdiv(a[2] * b[2], S))
  ELSE IF a[2] = 0 \/ b[2] = 0 THEN NaN
  ELSE Inf(SignInt(a[2]) * SignInt(b[2]))

FDiv(a, b) ==
  IF IsNaN(a) \/ IsNaN(b) THEN NaN
  ELSE IF IsFin(a) /\ IsFin(b)
       THEN IF b[2] = 0
            THEN (IF a[2] = 0 THEN NaN ELSE Inf(SignInt(a[2])))
            ELSE Fin(Tdiv(a[2] * S, b[2]))
  ELSE IF IsInf(a) /\ IsInf(b) THEN NaN
  ELSE IF IsInf(a) THEN Inf(SignInt(a[2]) * SignInt(b[2]))
  ELSE Fin(0)

\* Position of a non-NaN value on the extended real line.
Key(a) == IF IsInf(a) THEN a[2] * 1000000000 ELSE a[2]

\* Comparisons: every comparison with NaN is false.
FLt(a, b) == ~IsNaN(a) /\ ~IsNaN(b) /\ Key(a) < Key(b)
FLe(a, b) == ~IsNaN(a) /\ ~IsNaN(b) /\ Key(a) <= Key(b)
FGe(a, b) == FLe(b, a)
FGt(a, b) == FLt(b, a)
FEq(a, b) == ~IsNaN(a) /\ ~IsNaN(b) /\ a = b

RECURSIVE IsqrtIn(_, _, _)
IsqrtIn(n, lo, hi) ==
  IF lo >= hi THEN lo
  ELSE LET mid == (lo + hi + 1) \div 2
       IN  IF mid * mid <= n THEN IsqrtIn(n, mid, hi) ELSE IsqrtIn(n, lo, mid - 1)

\* floor(sqrt(n)) for 0 <= n < 2^31.
Isqrt(n) == IsqrtIn(n, 0, 46340)

\* sqrt of a float: sqrt(v/S) = sqrt(v*S)/S.
FSqrt(a) ==
  IF IsNaN(a) THEN NaN
  ELSE IF IsInf(a) THEN (IF a[2] > 0 THEN a ELSE NaN)
  ELSE IF a[2] < 0 THEN NaN
  ELSE Fin(Isqrt(a[2] * S))

\* np.log on the prices of the model, to three decimals.
Ln(p) ==
  CASE p = 1 -> Fin(0)
    [] p = 2 -> Fin(693)
    [] p = 3 -> Fin(1099)
    [] p = 4 -> Fin(1386)

-----------------------------------------------------------------------------
(* pandas Series operations                                                *)

Idx(s) == 1..Len(s)

SAdd(a, b) == [i \in Idx(a) |-> FAdd(a[i], b[i])]
SSub(a, b) == [i \in Idx(a) |-> FSub(a[i], b[i])]
SMul(a, b) == [i \in Idx(a) |-> FMul(a[i], b[i])]
SDiv(a, b) == [i \in Idx(a) |-> FDiv(a[i], b[i])]
SNeg(a) == [i \in Idx(a) |-> FNeg(a[i])]
SAbs(a) == [i \in Idx(a) |-> FAbs(a[i])]
SScale(c, a) == [i \in Idx(a) |-> FMul(c, a[i])]

\* Series.fillna(c)
SFillna(s, c) == [i \in Idx(s) |-> IF IsNaN(s[i]) THEN c ELSE s[i]]

RECURSIVE LastValid(_, _)
LastValid(s, i) ==
  IF i = 0 THEN NaN
  ELSE IF ~IsNaN(s[i]) THEN s[i]
  ELSE LastValid(s, i - 1)

\* Series.ffill()
SFfill(s) == [i \in Idx(s) |-> LastValid(s, i)]

\* Series.shift(1)
SShift(s) == [i \in Idx(s) |-> IF i = 1 THEN NaN ELSE s[i - 1]]

\* Series.diff()
SDiffSeries(s) == [i \in Idx(s) |-> IF i = 1 THEN NaN ELSE FSub(s[i], s[i - 1])]

\* Series.clip(lower=lo, upper=hi): NaN stays NaN.
SClip(s, lo, hi) ==
  [i \in Idx(s) |->
     IF IsNaN(s[i]) THEN NaN
     ELSE LET l == IF FGe(s[i], lo) THEN s[i] ELSE lo
          IN  IF FLe(l, hi) THEN l ELSE hi]

\* Series.replace([inf, -inf], nan)
SReplaceInf(s) == [i \in Idx(s) |-> IF IsInf(s[i]) THEN NaN ELSE s[i]]

\* Series.replace(0.0, nan)
SReplaceZero(s) == [i \in Idx(s) |-> IF s[i] = Fin(0) THEN NaN ELSE s[i]]

\* Series.where(cond, other)
SWhere(s, cond, other) == [i \in Idx(s) |-> IF cond[i] THEN s[i] ELSE other]

RECURSIVE FSumTo(_, _)
FSumTo(s, i) == IF i = 0 THEN Fin(0) ELSE FAdd(FSumTo(s, i - 1), s[i])

\* Sum of a window's values.
FSum(s) == FSumTo(s, Len(s))

\* Win with the window moved one bar into the future where there is one.
WinAhead(s, t, n) ==
  [k \in 1..n |-> s[IF t < Len(s) THEN t - n + k + 1 ELSE t - n + k]]

\* The n observations of s ending at bar t (t >= n).
Win(s, t, n) == [k \in 1..n |-> s[t - n + k]]

\* Series.rolling(n) yields a value at bar t only when the window ending at t
\* holds n observations, none missing (min_periods defaults to the window).
WinFull(s, t, n) == t >= n /\ \A k \in 1..n : ~IsNaN(s[t - n + k])

WinMean(w) == FDiv(FSum(w), Fin(Len(w) * S))

\* Sum over the window of (a - mean(a)) * (b - mean(b)), which is
\* sum(a*b) - sum(a)*sum(b)/n; the windows hold finite values only.
WinCoMoment(a, b) ==
  LET n == Len(a)
      sab == FSumTo([k \in Idx(a) |-> Fin(a[k][2] * b[k][2])], n)[2]
  IN  Fin(Tdiv(n * sab - FSum(a)[2] * FSum(b)[2], n * S))

\* Series.rolling(n).mean()
RollMean(s, n) ==
  [t \in Idx(s) |-> IF WinFull(s, t, n) THEN WinMean(Win(s, t, n)) ELSE NaN]

\* Series.rolling(n).std(ddof=0)
RollStd0(s, n) ==
  [t \in Idx(s) |->
     IF WinFull(s, t, n)
     THEN LET w == Win(s, t, n)
          IN  FSqrt(FDiv(WinCoMoment(w, w), Fin(n * S)))
     ELSE NaN]

\* Series.rolling(n).var() (ddof=1)
RollVar(s, n) ==
  [t \in Idx(s) |->
     IF WinFull(s, t, n)
     THEN LET w == Win(s, t, n)
          IN  FDiv(WinCoMoment(w, w), Fin((n - 1) * S))
     ELSE NaN]

\* y.rolling(n).cov(x) (ddof=1)
RollCov(y, x, n) ==
  [t \in Idx(y) |->
     IF WinFull(y, t, n) /\ WinFull(x, t, n)
     THEN FDiv(WinCoMoment(Win(y, t, n), Win(x, t, n)), Fin((n - 1) * S))
     ELSE NaN]

-----------------------------------------------------------------------------
(* src/src/signals.py                                                      *)

\* statsmodels' coint(y_win, x_win) is outside the repository.  All the
\* pipeline relies on is that the p-value is a deterministic function of the
\* two windows and that a failing test yields NaN; this table stands for it,
\* with p-values below, at and above the threshold of Config and a failure.
coint(y_win, x_win) ==
  LET h == FSum([k \in Idx(y_win) |->
                   Fin(k * (y_win[k][2] + 3 * x_win[k][2]))])[2]
  IN  <<Fin(10), Fin(50), Fin(900), Fin(40), NaN>>[(h % 5) + 1]

rolling_coint_pvalue(log_y, log_x, window) ==
  [i \in Idx(log_y) |->
     IF i >= window
     THEN coint(Win(log_y, i, window), Win(log_x, i, window))
     ELSE NaN]

\* tradable = (pvals < p_threshold)
Tradable(pvals, p_threshold) == [i \in Idx(pvals) |-> FLt(pvals[i], p_threshold)]

\* The filter with a missing p-value taken as tradable: ~(pvals >= threshold).
apply_coint_regime_filter_nan(p, pvals, p_threshold) ==
  SWhere(p, [i \in Idx(pvals) |-> ~FGe(pvals[i], p_threshold)], Fin(0))

apply_coint_regime_filter(p, pvals, p_threshold) ==
  SWhere(p, Tradable(pvals, p_threshold), Fin(0))

rolling_ols_beta(y, x, window) == SDiv(RollCov(y, x, window), RollVar(x, window))

\* compute_vol_scale without its fillna(0.0).
compute_vol_scale_nofill(spread, window, target_spread_vol, min_scale, max_scale) ==
  LET spread_d == SDiffSeries(spread)
      vol == RollStd0(spread_d, window)
      scale == [i \in Idx(vol) |-> FDiv(target_spread_vol, vol[i])]
  IN  SClip(SReplaceInf(scale), min_scale, max_scale)

compute_vol_scale(spread, window, target_spread_vol, min_scale, max_scale) ==
  LET spread_d == SDiffSeries(spread)
      vol == RollStd0(spread_d, window)
      scale == [i \in Idx(vol) |-> FDiv(target_spread_vol, vol[i])]
  IN  SClip(SFillna(SReplaceInf(scale), Fin(0)), min_scale, max_scale)

compute_spread_and_z(d, c) ==
  LET ly == [i \in Idx(d.y) |-> Ln(d.y[i])]
      lx == [i \in Idx(d.x) |-> Ln(d.x[i])]
      beta == rolling_ols_beta(ly, lx, c.lookback_beta)
      spread == SSub(ly, SMul(beta, lx))
      m == RollMean(spread, c.lookback_z)
      s == RollStd0(spread, c.lookback_z)
      coint_p == rolling_coint_pvalue(ly, lx, c.lookback_coint)
  IN  [ly |-> ly, lx |-> lx, beta |-> beta, spread |-> spread,
       z |-> SDiv(SSub(spread, m), s),
       coint_p |-> coint_p,
       is_coint |-> Tradable(coint_p, c.coint_p_threshold),
       vol_scale |-> compute_vol_scale(spread, c.lookback_spread_vol,
                                       c.target_spread_vol, c.min_scale,
                                       c.max_scale)]

\* GenStep with the entry thresholds also tested while a position is held.
GenStepFlip(state, val, entry_z, exit_z) ==
  IF IsNaN(val) THEN Fin(0)
  ELSE IF FGe(val, entry_z) THEN Fin(-S)
  ELSE IF FLe(val, FNeg(entry_z)) THEN Fin(S)
  ELSE IF FEq(state, Fin(0)) THEN state
  ELSE IF FLe(FAbs(val), exit_z) THEN Fin(0)
  ELSE state

\* One iteration of the loop of generate_positions: the state after the bar,
\* which is also the position the bar gets.
GenStep(state, val, entry_z, exit_z) ==
  IF IsNaN(val) THEN Fin(0)
  ELSE IF FEq(state, Fin(0))
       THEN IF FGe(val, entry_z) THEN Fin(-S)
            ELSE IF FLe(val, FNeg(entry_z)) THEN Fin(S)
            ELSE state
  ELSE IF FLe(FAbs(val), exit_z) THEN Fin(0)
  ELSE state

RECURSIVE GenState(_, _, _, _)
GenState(z, t, entry_z, exit_z) ==
  IF t = 0 THEN Fin(0)
  ELSE GenStep(GenState(z, t - 1, entry_z, exit_z), z[t], entry_z, exit_z)

generate_positions(z, entry_z, exit_z) ==
  [t \in Idx(z) |-> GenState(z, t, entry_z, exit_z)]

-----------------------------------------------------------------------------
(* src/src/backtest.py                                                     *)

\* CapBar with the cap one bar late: hold > max_holding_bars + 1.
CapBarLate(st, v, max_holding_bars) ==
  IF FEq(v, Fin(0)) THEN [hold |-> 0, prev |-> Fin(0), emit |-> Fin(0)]
  ELSE LET h == IF FEq(st.prev, v) THEN st.hold + 1 ELSE 1
       IN  IF h > max_holding_bars + 1
           THEN [hold |-> 0, prev |-> Fin(0), emit |-> Fin(0)]
           ELSE [hold |-> h, prev |-> v, emit |-> v]

\* CapBar with a forced exit that keeps the counter and the held value.
CapBarSticky(st, v, max_holding_bars) ==
  IF FEq(v, Fin(0)) THEN [hold |-> 0, prev |-> Fin(0), emit |-> Fin(0)]
  ELSE LET h == IF FEq(st.prev, v) THEN st.hold + 1 ELSE 1
       IN  IF h > max_holding_bars
           THEN [hold |-> h, prev |-> v, emit |-> Fin(0)]
           ELSE [hold |-> h, prev |-> v, emit |-> v]

\* One iteration of the holding-period loop: st holds the loop's hold and
\* prev before the bar; the result holds them after it, and emit, the value
\* the iteration appended to pos_capped (prev = pos_capped[-1]).
CapBar(st, v, max_holding_bars) ==
  IF FEq(v, Fin(0)) THEN [hold |-> 0, prev |-> Fin(0), emit |-> Fin(0)]
  ELSE LET h == IF FEq(st.prev, v) THEN st.hold + 1 ELSE 1
       IN  IF h > max_holding_bars
           THEN [hold |-> 0, prev |-> Fin(0), emit |-> Fin(0)]
           ELSE [hold |-> h, prev |-> v, emit |-> v]

RECURSIVE CapState(_, _, _)
CapState(p, t, max_holding_bars) ==
  IF t = 0 THEN [hold |-> 0, prev |-> Fin(0), emit |-> Fin(0)]
  ELSE CapBar(CapState(p, t - 1, max_holding_bars), p[t], max_holding_bars)

\* pos_capped, the list the loop builds.
HoldingCap(p, max_holding_bars) ==
  [t \in Idx(p) |-> CapState(p, t, max_holding_bars).emit]

\* The loop's counter hold after each iteration.
HoldTrace(p, max_holding_bars) ==
  [t \in Idx(p) |-> CapState(p, t, max_holding_bars).hold]

\* FilledForward without the ffill().
FilledNoForward(s) == SFillna(s, Fin(0))

\* beta.ffill().fillna(0.0), and the same for vol_scale
FilledForward(s) == SFillna(SFfill(s), Fin(0))

\* eff_gross = (gross_leverage * vol_scale).clip(0.0, max_gross_leverage)
EffGross(vol_scale, gross_leverage, max_gross_leverage) ==
  SClip(SScale(gross_leverage, vol_scale), Fin(0), max_gross_leverage)

\* a = eff_gross / (1.0 + |beta|).replace(0.0, nan)
NormFactor(eff_gross, beta) ==
  SDiv(eff_gross, SReplaceZero([i \in Idx(beta) |-> FAdd(Fin(S), FAbs(beta[i]))]))

\* RetGross without the shift(1).
RetGrossNoLag(w_y, w_x, ry, rx) ==
  SFillna(SAdd(SMul(w_y, ry), SMul(w_x, rx)), Fin(0))

\* ret_gross = (w_y.shift(1) * ry + w_x.shift(1) * rx).fillna(0.0)
RetGross(w_y, w_x, ry, rx) ==
  SFillna(SAdd(SMul(SShift(w_y), ry), SMul(SShift(w_x), rx)), Fin(0))

\* Turnover taken from the weight levels instead of their changes.
TurnoverLevel(w_y, w_x) == SFillna(SAdd(SAbs(w_y), SAbs(w_x)), Fin(0))

\* turnover = (w_y.diff().abs() + w_x.diff().abs()).fillna(0.0)
Turnover(w_y, w_x) ==
  SFillna(SAdd(SAbs(SDiffSeries(w_y)), SAbs(SDiffSeries(w_x))), Fin(0))

\* cost_per_turn = (fee_bps + slippage_bps) / 1e4
CostPerTurn(fee_bps, slippage_bps) == FDiv(FAdd(fee_bps, slippage_bps), Fin(10000 * S))

RECURSIVE CumProd(_, _)
CumProd(s, t) == IF t = 1 THEN s[1] ELSE FMul(CumProd(s, t - 1), s[t])

backtest_pairs(d, pos_spread, beta_in, vol_scale_in, c) ==
  LET ry == SDiffSeries([i \in Idx(d.y) |-> Ln(d.y[i])])
      rx == SDiffSeries([i \in Idx(d.x) |-> Ln(d.x[i])])
      pos0 == SFillna(pos_spread, Fin(0))
      beta == FilledForward(beta_in)
      vol_scale == FilledForward(vol_scale_in)
      pos_capped == HoldingCap(pos0, c.max_holding_bars)
      eff_gross == EffGross(vol_scale, c.gross_leverage, c.max_gross_leverage)
      a == NormFactor(eff_gross, beta)
      w_y == SMul(pos_capped, a)
      w_x == SMul(SMul(SNeg(pos_capped), a), beta)
      ret_gross == RetGross(w_y, w_x, ry, rx)
      cost == SScale(CostPerTurn(c.fee_bps, c.slippage_bps), Turnover(w_y, w_x))
      ret_net == SSub(ret_gross, cost)
      growth == [i \in Idx(ret_net) |-> FAdd(Fin(S), ret_net[i])]
  IN  [ry |-> ry, rx |-> rx, pos_in |-> pos0, pos |-> pos_capped,
       hold |-> HoldTrace(pos0, c.max_holding_bars),
       beta |-> beta, vol_scale |-> vol_scale, eff_gross |-> eff_gross, a |-> a,
       w_y |-> w_y, w_x |-> w_x, ret_gross |-> ret_gross, cost |-> cost,
       ret_net |-> ret_net,
       equity |-> [t \in Idx(ret_net) |-> CumProd(growth, t)]]

-----------------------------------------------------------------------------
(* src/src/config.py and the inputs                                        *)

\* Config, with the windows scaled down to the few bars of a model run, the
\* thresholds to the z-scores such windows can produce, and the cost and
\* volatility target to the three decimals of the arithmetic.
Config ==
  [lookback_beta |-> 2, lookback_z |-> 2,
   entry_z |-> Fin(700), exit_z |-> Fin(500),
   gross_leverage |-> Fin(1000), max_holding_bars |-> 2,
   fee_bps |-> Fin(40000), slippage_bps |-> Fin(20000),
   lookback_coint |-> 2, coint_p_threshold |-> Fin(50),
   lookback_spread_vol |-> 2, target_spread_vol |-> Fin(500),
   max_gross_leverage |-> Fin(2000), min_scale |-> Fin(0), max_scale |-> Fin(3000)]

\* Configurations of the pipeline runs.
PipelineConfigs ==
  { Config,
    [Config EXCEPT !.lookback_z = 3, !.lookback_coint = 3, !.min_scale = Fin(500)] }

\* Thresholds given to generate_positions and the filter.
SigConfigs ==
  { [Config EXCEPT !.entry_z = Fin(2000)],
    [Config EXCEPT !.entry_z = Fin(500), !.exit_z = Fin(2000)] }

\* Parameters given to backtest_pairs.
BtConfigs ==
  { [Config EXCEPT !.max_holding_bars = 1],
    [Config EXCEPT !.max_holding_bars = 2, !.gross_leverage = Fin(3000)],
    [Config EXCEPT !.max_holding_bars = 0, !.fee_bps = Fin(0), !.slippage_bps = Fin(0)] }

\* Closing prices of a bar.
Prices == {1, 2}

SeqsOf(A, n) == [1..n -> A]

\* z-scores: missing, at -entry, at exit, at +entry of the first SigConfig.
ZValues == {NaN, Fin(-2000), Fin(500), Fin(2000)}

\* p-values: missing, below the threshold, at the threshold.
PValues == {NaN, Fin(40), Fin(50)}

PosValues == {Fin(-S), Fin(0), Fin(S)}
BetaValues == {NaN, Fin(-500)}
VolScaleValues == {NaN, Fin(1500)}
\* (y, x) closes of a bar given to backtest_pairs directly.
BtBars == {<<1, 1>>, <<2, 3>>}

\* Price frames given to backtest_pairs directly: the closes move at most once.
BtFrames ==
  { b \in SeqsOf(BtBars, NBtBars) :
      Cardinality({i \in 1..(NBtBars - 1) : b[i] # b[i + 1]}) <= 1 }

Empty == <<>>

NoFeat ==
  [ly |-> Empty, lx |-> Empty, beta |-> Empty, spread |-> Empty, z |-> Empty,
   coint_p |-> Empty, is_coint |-> Empty, vol_scale |-> Empty]

-----------------------------------------------------------------------------
(* The runs                                                                *)

\* load_pair_close: a frame of NBars positive closes per leg; df2 is the same
\* frame with one close changed at a bar after the first.
Init ==
  /\ pc = "features"
  /\ cfg \in PipelineConfigs
  /\ \E y \in SeqsOf(Prices, NBars), x \in SeqsOf(Prices, NBars) :
       /\ df = [y |-> y, x |-> x]
       /\ \E t \in 2..NBars, v \in Prices :
            \/ v # y[t] /\ df2 = [y |-> [y EXCEPT ![t] = v], x |-> x]
            \/ v # x[t] /\ df2 = [y |-> y, x |-> [x EXCEPT ![t] = v]]
  /\ feat = NoFeat
  /\ pos_raw = Empty
  /\ pos = Empty
  /\ out = Empty
  /\ run2 = Empty

InitSig ==
  /\ pc = "positions"
  /\ cfg \in SigConfigs
  /\ df = Empty
  /\ df2 = Empty
  /\ \E z \in SeqsOf(ZValues, NSigBars), p \in SeqsOf(PValues, NSigBars) :
       feat = [NoFeat EXCEPT !.z = z, !.coint_p = p]
  /\ pos_raw = Empty
  /\ pos = Empty
  /\ out = Empty
  /\ run2 = Empty

\* A direct call of backtest_pairs on any position, beta and vol_scale series
\* over a price frame of NBtBars bars.
InitBT ==
  /\ pc = "backtest"
  /\ cfg \in BtConfigs
  /\ \E b \in BtFrames :
       df = [y |-> [i \in 1..NBtBars |-> b[i][1]], x |-> [i \in 1..NBtBars |-> b[i][2]]]
  /\ df2 = Empty
  /\ \E be \in SeqsOf(BetaValues, NBtBars), v \in SeqsOf(VolScaleValues, NBtBars) :
       feat = [NoFeat EXCEPT !.beta = be, !.vol_scale = v]
  /\ pos_raw = Empty
  /\ pos \in SeqsOf(PosValues, NBtBars)
  /\ out = Empty
  /\ run2 = Empty

\* The pipeline of main() as one function of the price frame.
RunPipeline(d, c) ==
  LET f == compute_spread_and_z(d, c)
      praw == generate_positions(f.z, c.entry_z, c.exit_z)
      p == apply_coint_regime_filter(praw, f.coint_p, c.coint_p_threshold)
  IN  [feat |-> f, pos_raw |-> praw, pos |-> p,
       out |-> backtest_pairs(d, p, f.beta, f.vol_scale, c)]

ComputeSpreadAndZ ==
  /\ pc = "features"
  /\ feat' = compute_spread_and_z(df, cfg)
  /\ pc' = "positions"
  /\ UNCHANGED <<cfg, df, df2, pos_raw, pos, out, run2>>

GeneratePositions ==
  /\ pc = "positions"
  /\ pos_raw' = generate_positions(feat.z, cfg.entry_z, cfg.exit_z)
  /\ pc' = "filter"
  /\ UNCHANGED <<cfg, df, df2, feat, pos, out, run2>>

ApplyCointRegimeFilter ==
  /\ pc = "filter"
  /\ pos' = apply_coint_regime_filter(pos_raw, feat.coint_p, cfg.coint_p_threshold)
  /\ pc' = "backtest"
  /\ UNCHANGED <<cfg, df, df2, feat, pos_raw, out, run2>>

BacktestPairs ==
  /\ pc = "backtest"
  /\ out' = backtest_pairs(df, pos, feat.beta, feat.vol_scale, cfg)
  /\ pc' = "done"
  /\ UNCHANGED <<cfg, df, df2, feat, pos_raw, pos, run2>>

\* The pipeline run again, on the frame df2.
SecondRun ==
  /\ pc = "done"
  /\ run2 = Empty
  /\ df2 # Empty
  /\ run2' = RunPipeline(df2, cfg)
  /\ UNCHANGED <<pc, cfg, df, df2, feat, pos_raw, pos, out>>

Next ==
  \/ ComputeSpreadAndZ
  \/ GeneratePositions
  \/ ApplyCointRegimeFilter
  \/ BacktestPairs
  \/ SecondRun

NextSig == GeneratePositions \/ ApplyCointRegimeFilter

NextBT == BacktestPairs

Spec == Init /\ [][Next]_vars

SpecSig == InitSig /\ [][NextSig]_vars

SpecBT == InitBT /\ [][NextBT]_vars

-----------------------------------------------------------------------------
(* Properties                                                              *)

Zero == Fin(0)

Tradable1(t) == FLt(feat.coint_p[t], cfg.coint_p_threshold)

\* C1: the positions of generate_positions are -1, 0 or +1, and between any
\* two bars holding opposite nonzero positions there is a flat bar: the
\* position never goes from long to short, or back, from one bar to the next.
C1_NoDirectFlip ==
  /\ \A t \in DOMAIN pos_raw : pos_raw[t] \in PosValues
  /\ \A i \in DOMAIN pos_raw : \A j \in DOMAIN pos_raw :
       (i < j /\ pos_raw[i] # Zero /\ pos_raw[j] = FNeg(pos_raw[i]))
         => \E k \in (i + 1)..(j - 1) : pos_raw[k] = Zero

\* C1 witness: the spread is long at a bar whose z is at or below -entry_z, z
\* is at or above +entry_z at the next bar, and the position is still long.
C1_Witness ==
  /\ pc # "positions"
  /\ \E t \in 1..(NSigBars - 1) :
       /\ FLe(feat.z[t], FNeg(cfg.entry_z))
       /\ FGe(feat.z[t + 1], cfg.entry_z)
       /\ pos_raw[t] = Fin(S)
       /\ pos_raw[t + 1] = Fin(S)

\* C2: the filtered position is 0 at every bar whose p-value is missing or
\* not below the threshold, and at every other bar it is the raw position,
\* which is the position of an unfiltered run over the same z-scores.
C2_FilterOverlay ==
  pc \in {"backtest", "done"} =>
    LET unfiltered ==
          apply_coint_regime_filter(
            generate_positions(feat.z, cfg.entry_z, cfg.exit_z),
            [i \in DOMAIN pos |-> Zero], cfg.coint_p_threshold)
    IN  \A t \in DOMAIN pos :
          /\ (IsNaN(feat.coint_p[t]) \/ FGe(feat.coint_p[t], cfg.coint_p_threshold))
               => pos[t] = Zero
          /\ Tradable1(t) => (pos[t] = pos_raw[t] /\ pos[t] = unfiltered[t])

\* C2 witness: a held position is filtered to 0 at an untradable bar and is
\* seen again, unchanged, at a later tradable bar.
C2_Witness ==
  /\ pc = "backtest"
  /\ \E t \in DOMAIN pos : \E u \in DOMAIN pos :
       /\ t < u
       /\ ~Tradable1(t) /\ pos_raw[t] # Zero /\ pos[t] = Zero
       /\ Tradable1(u) /\ pos[u] = pos_raw[t]
       /\ \A k \in t..u : pos_raw[k] = pos_raw[t]

RECURSIVE RunLen(_, _)
\* Number of consecutive bars up to t holding the value of bar t.
RunLen(s, t) == IF t > 1 /\ s[t - 1] = s[t] THEN RunLen(s, t - 1) + 1 ELSE 1

\* C3: on every emitted nonzero bar the counter is the length of the run so
\* far and at most max_holding_bars, no run of one nonzero position is longer
\* than max_holding_bars, and when the input keeps the value the bar after
\* the max_holding_bars-th held bar is 0.
C3_HoldingCap ==
  pc = "done" =>
    LET m == cfg.max_holding_bars
        n == Len(out.pos)
    IN  /\ \A t \in 1..n :
             out.pos[t] # Zero =>
               (out.hold[t] = RunLen(out.pos, t) /\ out.hold[t] <= m)
        /\ \A t \in 1..(n - m) :
             ~(out.pos[t] # Zero /\ \A k \in 0..m : out.pos[t + k] = out.pos[t])
        /\ \A t \in 1..(n - 1) :
             (out.pos[t] # Zero /\ RunLen(out.pos, t) = m /\ pos[t + 1] = out.pos[t])
               => out.pos[t + 1] = Zero

\* C3 witness: a position held for max_holding_bars bars whose input goes on
\* and whose next bar is forced to 0.
C3_Witness ==
  /\ pc = "done"
  /\ cfg.max_holding_bars >= 1
  /\ \E t \in 1..(NBtBars - 1) :
       /\ out.pos[t] # Zero
       /\ out.hold[t] = cfg.max_holding_bars
       /\ pos[t + 1] = out.pos[t]
       /\ out.pos[t + 1] = Zero

\* The cap forced bar t flat: the input holds a position and the output is 0.
Forced(t) == out.pos_in[t] # Zero /\ out.pos[t] = Zero

\* C10: the capped position is 0 or the input position of the bar, and after
\* a bar forced flat (max_holding_bars >= 1) an input that keeps its value is
\* taken again at the next bar, with the counter at 1.
C10_SingleFlatBar ==
  pc = "done" =>
    /\ \A t \in DOMAIN out.pos : out.pos[t] = Zero \/ out.pos[t] = out.pos_in[t]
    /\ \A t \in 1..(Len(out.pos) - 1) :
         (cfg.max_holding_bars >= 1 /\ Forced(t) /\ out.pos_in[t + 1] = out.pos_in[t])
           => (out.pos[t + 1] = out.pos_in[t + 1] /\ out.hold[t + 1] = 1)

\* C10 witness: a bar forced flat followed by a bar that re-enters.
C10_Witness ==
  /\ pc = "done"
  /\ cfg.max_holding_bars >= 1
  /\ \E t \in 1..(NBtBars - 1) :
       /\ Forced(t)
       /\ out.pos_in[t + 1] = out.pos_in[t]
       /\ out.pos[t + 1] = out.pos_in[t]

\* The previous bar's weights applied to bar t's leg returns.
Lagged(t) ==
  FAdd(FMul(out.w_y[t - 1], out.ry[t]), FMul(out.w_x[t - 1], out.rx[t]))

\* Bar t's own weights applied to bar t's leg returns.
SameBar(t) == FAdd(FMul(out.w_y[t], out.ry[t]), FMul(out.w_x[t], out.rx[t]))

\* C5: the gross return of the first bar is 0 and that of every later bar is
\* the previous bar's leg weights applied to the bar's leg log-returns.
C5_LaggedReturn ==
  pc = "done" =>
    /\ out.ret_gross[1] = Zero
    /\ \A t \in 2..Len(out.ret_gross) : out.ret_gross[t] = Lagged(t)

\* C5 witness: a bar with a nonzero gross return that the bar's own weights
\* would not have given.
C5_Witness ==
  /\ pc = "done"
  /\ \E t \in 2..NBtBars :
       /\ out.ret_gross[t] # Zero
       /\ SameBar(t) # Zero
       /\ out.ret_gross[t] # SameBar(t)

\* C6 as claimed: at a bar where beta is undefined, a is undefined and both
\* leg weights are zero.
C6_UndefinedBetaZeroWeights ==
  pc = "done" =>
    \A t \in DOMAIN out.a :
      IsNaN(feat.beta[t]) =>
        (IsNaN(out.a[t]) /\ out.w_y[t] = Zero /\ out.w_x[t] = Zero)

\* C6 as amended: at a bar where beta is undefined backtest_pairs uses the
\* beta of the bar before (0.0 at the first bar), a is the finite number
\* eff_gross / (1 + |beta|), and the leg weights are zero when the capped
\* position or the effective gross exposure is zero and w_y is nonzero
\* otherwise.
C6_BetaCarriedForward ==
  pc = "done" =>
    \A t \in DOMAIN out.a :
      IsNaN(feat.beta[t]) =>
        /\ out.beta[t] = (IF t > 1 THEN out.beta[t - 1] ELSE Zero)
        /\ IsFin(out.a[t])
        /\ out.a[t] = FDiv(out.eff_gross[t], FAdd(Fin(S), FAbs(out.beta[t])))
        /\ (out.pos[t] = Zero \/ out.eff_gross[t] = Zero)
             => (out.w_y[t] = Zero /\ out.w_x[t] = Zero)
        /\ (out.pos[t] # Zero /\ out.eff_gross[t] # Zero) => out.w_y[t] # Zero

\* C6 witness: beta is undefined at a bar after a defined one, a position is
\* held and both leg weights are nonzero.
C6_Witness ==
  /\ pc = "done"
  /\ \E t \in 2..NBtBars :
       /\ IsNaN(feat.beta[t])
       /\ ~IsNaN(feat.beta[t - 1])
       /\ out.w_y[t] # Zero
       /\ out.w_x[t] # Zero

\* C7 as claimed: the first bar is charged the turnover from a zero starting
\* weight, cost[0] = cost_per_turn * (|w_y[0]| + |w_x[0]|).
C7_FirstBarCost ==
  pc = "done" =>
    out.cost[1] = FMul(CostPerTurn(cfg.fee_bps, cfg.slippage_bps),
                       FAdd(FAbs(out.w_y[1]), FAbs(out.w_x[1])))

\* |w_y[t] - w_y[t-1]| + |w_x[t] - w_x[t-1]|
WeightChange(t) ==
  FAdd(FAbs(FSub(out.w_y[t], out.w_y[t - 1])), FAbs(FSub(out.w_x[t], out.w_x[t - 1])))

\* Bar t takes the capped position from +1 to 0 with an unchanged hedge ratio
\* and a nonzero effective gross exposure on the bar before.
ExitFromLong(t) ==
  /\ out.pos[t - 1] = Fin(S)
  /\ out.pos[t] = Zero
  /\ out.beta[t] = out.beta[t - 1]
  /\ out.eff_gross[t - 1] # Zero

\* C8: after the first bar the cost is cost_per_turn times the change of the
\* two leg weights; it is 0 where both weights are unchanged and, with a
\* positive fee_bps + slippage_bps, greater than 0 at an exit from +1.
C8_TurnoverCost ==
  pc = "done" =>
    \A t \in 2..Len(out.cost) :
      /\ out.cost[t] = FMul(CostPerTurn(cfg.fee_bps, cfg.slippage_bps), WeightChange(t))
      /\ (out.w_y[t] = out.w_y[t - 1] /\ out.w_x[t] = out.w_x[t - 1])
           => out.cost[t] = Zero
      /\ (FGt(FAdd(cfg.fee_bps, cfg.slippage_bps), Zero) /\ ExitFromLong(t))
           => FGt(out.cost[t], Zero)

\* C8 witness: an exit from +1 that is charged, after a bar that held
\* unchanged nonzero weights and was charged nothing.
C8_Witness ==
  /\ pc = "done"
  /\ \E t \in 3..NBtBars :
       /\ ExitFromLong(t)
       /\ FGt(out.cost[t], Zero)
       /\ out.w_y[t - 1] # Zero
       /\ out.w_y[t - 1] = out.w_y[t - 2]
       /\ out.w_x[t - 1] = out.w_x[t - 2]
       /\ out.cost[t - 1] = Zero

\* The first bar at which the two price frames differ.
FirstDiff ==
  CHOOSE t \in 1..NBars :
    /\ <<df.y[t], df.x[t]>> # <<df2.y[t], df2.x[t]>>
    /\ \A u \in 1..(t - 1) : <<df.y[u], df.x[u]>> = <<df2.y[u], df2.x[u]>>

\* C4: the run on df2, whose prices equal those of df before bar FirstDiff,
\* has the raw, filtered and capped positions and the leg weights of the run
\* on df at every bar before FirstDiff.  (df2 differs from df at one bar;
\* frames that differ from a bar on are reached by chaining such changes,
\* none of which is before that bar.)
C4_NoLookAhead ==
  run2 # Empty =>
    \A u \in 1..(FirstDiff - 1) :
      /\ pos_raw[u] = run2.pos_raw[u]
      /\ pos[u] = run2.pos[u]
      /\ out.pos[u] = run2.out.pos[u]
      /\ out.w_y[u] = run2.out.w_y[u]
      /\ out.w_x[u] = run2.out.w_x[u]

\* C4 witness: the frames differ at a bar after one with nonzero weights, and
\* the change moves a weight from that bar on.
C4_Witness ==
  /\ run2 # Empty
  /\ \E u \in 1..(FirstDiff - 1) : out.w_y[u] # Zero /\ out.w_x[u] # Zero
  /\ \E v \in FirstDiff..NBars : out.w_y[v] # run2.out.w_y[v]

\* beta is missing before lookback_beta bars and defined from then on where
\* the variance of the window of lx is not zero.
BetaWarmup ==
  \A t \in DOMAIN feat.beta :
    /\ t < cfg.lookback_beta => IsNaN(feat.beta[t])
    /\ (t >= cfg.lookback_beta /\ FGt(RollVar(feat.lx, cfg.lookback_beta)[t], Zero))
         => IsFin(feat.beta[t])

\* z is missing until lookback_z spreads exist and defined from then on where
\* the window's spreads are defined and their deviation is not zero.
ZWarmup ==
  \A t \in DOMAIN feat.z :
    /\ t < cfg.lookback_beta + cfg.lookback_z - 1 => IsNaN(feat.z[t])
    /\ (/\ t >= cfg.lookback_beta + cfg.lookback_z - 1
        /\ \A k \in (t - cfg.lookback_z + 1)..t : IsFin(feat.beta[k])
        /\ FGt(RollStd0(feat.spread, cfg.lookback_z)[t], Zero))
         => IsFin(feat.z[t])

\* 0.0 clipped into [min_scale, max_scale]
ClippedZero == SClip(<<Zero>>, cfg.min_scale, cfg.max_scale)[1]

\* C9 as claimed: hedge ratio, z-score and sizing multiplier are each missing
\* before their window is full and defined afterwards.
C9_MissingBeforeWindow ==
  pc # "features" =>
    /\ BetaWarmup
    /\ ZWarmup
    /\ \A t \in DOMAIN feat.vol_scale :
         /\ t < cfg.lookback_spread_vol => IsNaN(feat.vol_scale[t])
         /\ t >= cfg.lookback_beta + cfg.lookback_spread_vol => IsFin(feat.vol_scale[t])

\* C9 as amended: hedge ratio and z-score are missing before their window is
\* full and defined afterwards, barring zero variance; the sizing multiplier
\* is defined at every bar, within [min_scale, max_scale], and is 0.0 clipped
\* into that range at every bar before its window is full.
C9_WarmupValues ==
  pc # "features" =>
    /\ BetaWarmup
    /\ ZWarmup
    /\ \A t \in DOMAIN feat.vol_scale :
         /\ IsFin(feat.vol_scale[t])
         /\ FGe(feat.vol_scale[t], cfg.min_scale)
         /\ FLe(feat.vol_scale[t], cfg.max_scale)
         /\ t < cfg.lookback_beta + cfg.lookback_spread_vol
              => feat.vol_scale[t] = ClippedZero

\* C9 witness: a frame whose sizing multiplier is min_scale > 0 at the first
\* bar and another value once its window is full, with a defined z-score and
\* with a hedge ratio missing after its window is full.
C9_Witness ==
  /\ pc = "positions"
  /\ cfg.min_scale # Zero
  /\ feat.vol_scale[1] = cfg.min_scale
  /\ \E t \in DOMAIN feat.vol_scale : feat.vol_scale[t] # cfg.min_scale
  /\ \E t \in DOMAIN feat.z : IsFin(feat.z[t])
  /\ \E t \in DOMAIN feat.beta : t >= cfg.lookback_beta /\ IsNaN(feat.beta[t])

====
